---- MODULE Spec2Model ----
(***************************************************************************)
(* A model of punycode.js (src/src/punycode.js): the UCS-2 to code point   *)
(* conversion, the bias adaptation, the Bootstring decoder and encoder and *)
(* the two label wrappers (unicode, ascii).                                *)
(*                                                                         *)
(* Strings are sequences of 16 bit code units, arrays are sequences of     *)
(* numbers.  Every loop of the source is a program counter position, and   *)
(* one action is one pass through the body of a loop (or one statement     *)
(* group between two guards).  The locals of the functions are the         *)
(* variables; a callee's locals are kept apart from its caller's only      *)
(* where both are live (ucs2.decode's input/output/i).                     *)
(*                                                                         *)
(* JavaScript numbers are doubles, exact far beyond 32 bits, while the     *)
(* model checker's integers are 32 bit.  The encoder's delta and q, which  *)
(* the source never guards, are therefore "wide" numbers: a pair <<hi,lo>> *)
(* standing for hi * 2^16 + lo with lo in 0..2^16-1.                       *)
(***************************************************************************)
EXTENDS Integers, Sequences, FiniteSets, TLC

\* ---------------------------------------------------------------- constants

MAX_INTEGER == 2147483647
BASE == 36
TMIN == 1
TMAX == 26
SKEW == 38
DAMP == 700
INITIAL_BIAS == 72
INITIAL_N == 128
DELIMITER_CODE == 45

\* ------------------------------------------------------------------- bounds

\* longest string of EncAlphabet given to encode / ascii
MaxEncLen == 3
\* longest string of DecAlphabet given to decode
MaxDecLen == 3
\* longest string of DigitAlphabet given to decode
MaxDigits == 9
\* longest run of characters in a label given to unicode (after its prefix) or ascii
MaxRestLen == 2
\* number of basic code points in front of U+10FFFF in LongInput
LongBasics == 1927
\* largest delta given to adapt on its own (besides AdaptExtra)
MaxAdaptDelta == 1000
\* largest numPoints given to adapt on its own
MaxAdaptPoints == 4

\* --------------------------------------------------------- number helpers

\* JavaScript's truncating quotient of two integers, b # 0: ~~(a / b)
TruncDiv(a, b) ==
  IF (a >= 0) = (b > 0) THEN (IF a >= 0 THEN a ELSE -a) \div (IF b > 0 THEN b ELSE -b)
  ELSE -((IF a >= 0 THEN a ELSE -a) \div (IF b > 0 THEN b ELSE -b))

\* JavaScript's remainder (sign of the dividend): a % b
JsRem(a, b) == a - b * TruncDiv(a, b)

\* wide numbers: <<hi, lo>> is hi * 2^16 + lo
Wide(x) == <<x \div 65536, x % 65536>>
WNorm(hi, lo) == <<hi + (lo \div 65536), lo % 65536>>
WAdd(a, b) == WNorm(a[1] + b[1], a[2] + b[2])
WNeg(a) == WNorm(-a[1], -a[2])
WIsNeg(a) == a[1] < 0
\* x * y for integers with |x| < 2^30 and 0 <= y < 2^14
WMul(x, y) == WNorm((x \div 65536) * y, (x % 65536) * y)
\* a < t, a > t for a wide a and an integer t
WLess(a, t) == a[1] < Wide(t)[1] \/ (a[1] = Wide(t)[1] /\ a[2] < Wide(t)[2])
WGreater(a, t) == a[1] > Wide(t)[1] \/ (a[1] = Wide(t)[1] /\ a[2] > Wide(t)[2])
\* quotient (wide) and remainder (integer) of a >= 0 by 0 < d < 2^14
WQuot(a, d) == <<a[1] \div d, ((a[1] % d) * 65536 + a[2]) \div d>>
WRem(a, d) == ((a[1] % d) * 65536 + a[2]) % d
\* the integer a wide number stands for, when it is within 32 bits
WInt(a) == a[1] * 65536 + a[2]
\* ToInt32 of a wide number: what ~~x, x >> 0 keep of an integer x
ToInt32(a) ==
  LET hh == a[1] % 65536
  IN  IF hh >= 32768 THEN (hh - 65536) * 65536 + a[2] ELSE hh * 65536 + a[2]
\* ~~(a / d): the truncated quotient, through ToInt32
WTruncQuot(a, d) ==
  IF WIsNeg(a) THEN ToInt32(WNeg(WQuot(WNeg(a), d))) ELSE ToInt32(WQuot(a, d))
\* a % d with the sign of a
WJsRem(a, d) == IF WIsNeg(a) THEN -WRem(WNeg(a), d) ELSE WRem(a, d)

\* --------------------------------------------------------- string helpers

Range(f) == {f[j] : j \in DOMAIN f}
Strings(alphabet, maxLen) == UNION {[1..len -> alphabet] : len \in 0..maxLen}

IsHigh(code) == code >= 55296 /\ code <= 56319     \* 0xD800..0xDBFF
IsLow(code) == code >= 56320 /\ code <= 57343      \* 0xDC00..0xDFFF

\* String.fromCharCode(...codes): each number to a 16 bit unit
FromCharCode(codes) == [j \in 1..Len(codes) |-> codes[j] % 65536]

\* the units String.fromCodePoint gives one code point
UnitsOf(cp) ==
  IF cp < 65536 THEN <<cp>>
  ELSE <<55296 + ((cp - 65536) \div 1024), 56320 + ((cp - 65536) % 1024)>>

RECURSIVE FromCodePointRange(_, _, _)
FromCodePointRange(cps, lo, hi) ==
  IF lo > hi THEN <<>>
  ELSE IF lo = hi THEN UnitsOf(cps[lo])
  ELSE FromCodePointRange(cps, lo, (lo + hi) \div 2)
         \o FromCodePointRange(cps, ((lo + hi) \div 2) + 1, hi)

\* String.fromCodePoint(...cps) throws a RangeError on a number that is no code point
ValidCodePoints(cps) == \A j \in 1..Len(cps) : cps[j] >= 0 /\ cps[j] <= 1114111
FromCodePoint(cps) == FromCodePointRange(cps, 1, Len(cps))

\* array.splice(at, 0, x), at a 0-based index
Splice(arr, at, x) == SubSeq(arr, 1, at) \o <<x>> \o SubSeq(arr, at + 1, Len(arr))

\* string.indexOf(unit) in the place of lastIndexOf
FirstIndexOf(str, unit) ==
  IF \E j \in 1..Len(str) : str[j] = unit
  THEN (CHOOSE j \in 1..Len(str) :
          str[j] = unit /\ \A j2 \in 1..(j - 1) : str[j2] # unit) - 1
  ELSE -1

\* string.lastIndexOf(unit): 0-based, -1 when absent
LastIndexOf(str, unit) ==
  IF \E j \in 1..Len(str) : str[j] = unit
  THEN (CHOOSE j \in 1..Len(str) :
          str[j] = unit /\ \A j2 \in (j + 1)..Len(str) : str[j2] # unit) - 1
  ELSE -1

\* ---------------------------------------------------------------- state

VARIABLES
  pc,        \* position in the running call
  api,       \* the function the client called
  arg,       \* the string the client passed
  result,    \* the string returned to the client
  err,       \* the message of the error thrown to the client, "" if none
  uinput,    \* ucs2.decode: input
  uoutput,   \* ucs2.decode: output
  ui,        \* ucs2.decode: i
  input,     \* decode / encode: input (a string, then an array of numbers)
  output,    \* decode / encode: output
  nonBasic,  \* encode: nonBasic
  basic,     \* decode / encode: basic
  length,    \* decode / encode: length
  bias,      \* decode / encode: bias; the value adapt returned
  n,         \* decode / encode: n
  delta,     \* encode: delta (wide); adapt: delta
  h,         \* encode: h
  fi,        \* encode: index of input.forEach
  k,         \* decode / encode: k
  q,         \* encode: q (wide)
  i,         \* decode: i
  oldi,      \* decode: oldi
  w,         \* decode: w
  digit,     \* decode: digit
  t,         \* decode: t
  labels,    \* unicode / ascii: input.split('.')
  li,        \* unicode / ascii: index of map
  mapped,    \* unicode / ascii: the labels map has produced
  numPoints, \* adapt: numPoints
  firstTime  \* adapt: firstTime

vars == <<pc, api, arg, result, err, uinput, uoutput, ui, input, output, nonBasic,
          basic, length, bias, n, delta, h, fi, k, q, i, oldi, w, digit, t,
          labels, li, mapped, numPoints, firstTime>>

ucs2Vars == <<uinput, uoutput, ui>>
encVars == <<nonBasic, delta, h, fi, q>>
decVars == <<i, oldi, w, digit, t>>
loopVars == <<basic, length, bias, n, k>>
labelVars == <<labels, li, mapped>>
adaptVars == <<numPoints, firstTime>>
clientVars == <<api, arg>>

ctlVars == <<pc, result, err, li, mapped>>

\* the string "xn--"
ACE_PREFIX == <<120, 110, 45, 45>>

Goto(p) == pc' = p /\ UNCHANGED <<result, err, li, mapped>>

\* throw new Error(msg): no caller catches, the client gets the error
Throw(msg) == pc' = "error" /\ err' = msg /\ UNCHANGED <<result, li, mapped>>

\* ------------------------------------------------------------------ adapt

\* delta = firstTime ? delta / DAMP : delta >> 1
\* The quotient by DAMP is a double: ip + r / DAMP, with r of the sign of ip;
\* q keeps the whole part of this quotient.
AdaptScale(d, first) ==
  IF first
  THEN IF WIsNeg(d)
       THEN [ip |-> -WInt(WQuot(WNeg(d), DAMP)), r |-> -WRem(WNeg(d), DAMP),
             q |-> -WInt(WQuot(WNeg(d), DAMP))]
       ELSE [ip |-> WInt(WQuot(d, DAMP)), r |-> WRem(d, DAMP),
             q |-> WInt(WQuot(d, DAMP))]
  ELSE [ip |-> ToInt32(d) \div 2, r |-> 0, q |-> ToInt32(d) \div 2]

\* delta += ~~(delta / numPoints)
AdaptSpread(d, points) == [d EXCEPT !.ip = d.ip + TruncDiv(d.ip, points)]

\* delta > x, with x = ~~(((BASE - TMIN) * TMAX) >> 1)
AdaptAbove(d) ==
  LET x == ((BASE - TMIN) * TMAX) \div 2
  IN  d.ip > x \/ (d.ip = x /\ d.r > 0)

\* The division of the return expression is a division of doubles. Where
\* delta has a fraction and the exact quotient is a whole number j, the double
\* quotient is either j or the double just below it, which ~~ truncates to
\* j - 1. Evaluated in IEEE 754 binary64 for every delta that reaches the
\* return expression with a fraction (DAMP * delta below DAMP * x), the
\* quotient falls below j exactly for these values of DAMP * delta:
\*   760, 5320, 21280, 69160, and 110200 when delta / DAMP was 128 or more
\* (the other exact quotients, 3325, 7600, 11704, 19000, 33250, 37240, 41800,
\* 164920 and 110200 from a smaller delta / DAMP, come out as j).
QuotientRoundsBelow(d) ==
  LET g == DAMP * d.ip + d.r
  IN  \/ g \in {760, 5320, 21280, 69160}
      \/ g = 110200 /\ d.q >= 128

\* k + ~~(((BASE - TMIN + 1) * delta) / (delta + SKEW))
AdaptTail(d, kk) ==
  LET num == (BASE - TMIN + 1) * (DAMP * d.ip + d.r)
      den == DAMP * d.ip + d.r + DAMP * SKEW
  IN  kk + (IF den = 0 THEN 0
            ELSE TruncDiv(num, den) - (IF QuotientRoundsBelow(d) THEN 1 ELSE 0))

\* for (; delta > x; k += BASE) delta = ~~(delta / (BASE - TMIN));
RECURSIVE AdaptLoop(_, _)
AdaptLoop(d, kk) ==
  IF AdaptAbove(d)
  THEN AdaptLoop([ip |-> TruncDiv(d.ip, BASE - TMIN), r |-> 0, q |-> 0], kk + BASE)
  ELSE AdaptTail(d, kk)

adapt(d, points, first) == AdaptLoop(AdaptSpread(AdaptScale(d, first), points), 0)

\* ------------------------------------------------------------ ucs2.decode

SurrogatePair(hi, low) == ((hi - 55296) * 1024) + (low - 56320) + 65536

\* isNaN(input.charCodeAt(at)): at is past the end of the string
NoUnitAt(str, at) == at >= Len(str)

Ucs2Enter ==
  /\ pc = "u_enter"
  /\ IF uinput = <<>>
     THEN input' = <<>> /\ Goto("e_init") /\ UNCHANGED <<uoutput, ui>>
     ELSE uoutput' = <<>> /\ ui' = 0 /\ Goto("u_loop") /\ UNCHANGED input
  /\ UNCHANGED <<clientVars, uinput, output, encVars, decVars, loopVars, labels, adaptVars>>

\* the 0-based index of the first surrogate unit at or after from, the length if none
NextSurrogate(str, from) ==
  LET at == {j \in (from + 1)..Len(str) : IsHigh(str[j]) \/ IsLow(str[j])}
  IN  IF at = {} THEN Len(str) ELSE (CHOOSE j \in at : \A j2 \in at : j <= j2) - 1

\* One pass of the loop for a surrogate unit; for a unit that is no surrogate, the
\* passes up to the next surrogate unit (each of them pushes its unit, lines 90-92).
Ucs2Step ==
  /\ pc = "u_loop"
  /\ ui < Len(uinput)
  /\ LET code == uinput[ui + 1]
     IN  IF IsHigh(code)
         THEN IF NoUnitAt(uinput, ui + 1)
              THEN /\ Throw("high surrogate not followed by low surrogate")
                   /\ ui' = ui + 1
                   /\ UNCHANGED uoutput
              ELSE /\ uoutput' = Append(uoutput, SurrogatePair(code, uinput[ui + 2]))
                   /\ ui' = ui + 2
                   /\ Goto("u_loop")
         ELSE IF IsLow(code)
         THEN ui' = ui + 1 /\ Goto("u_loop") /\ UNCHANGED uoutput
         ELSE /\ uoutput' = uoutput \o SubSeq(uinput, ui + 1, NextSurrogate(uinput, ui))
              /\ ui' = NextSurrogate(uinput, ui)
              /\ Goto("u_loop")
  /\ UNCHANGED <<clientVars, uinput, input, output, encVars, decVars, loopVars, labels,
                 adaptVars>>

Ucs2Return ==
  /\ pc = "u_loop"
  /\ ui >= Len(uinput)
  /\ input' = uoutput
  /\ Goto("e_init")
  /\ UNCHANGED <<clientVars, ucs2Vars, output, encVars, decVars, loopVars, labels,
                 adaptVars>>

\* ----------------------------------------------------------------- encode

\* return from encode: to the client, to ascii's map, or (the client composing
\* decode(encode(s))) into the call of decode
EncodeReturn(str) ==
  CASE api = "ascii" ->
         /\ mapped' = Append(mapped, ACE_PREFIX \o str)
         /\ li' = li + 1
         /\ pc' = "a_map"
         /\ UNCHANGED <<result, err, input>>
    [] api = "roundtrip" ->
         /\ input' = str
         /\ pc' = "d_enter"
         /\ UNCHANGED <<result, err, li, mapped>>
    [] OTHER ->
         /\ result' = str
         /\ pc' = "done"
         /\ UNCHANGED <<err, li, mapped, input>>

EncThreshold(kk, b) ==
  IF kk <= b + TMIN THEN TMIN ELSE IF kk >= b + TMAX THEN TMAX ELSE kk - b

\* d + (d < 0x1A ? 0x61 : 0x16)
DigitChar(d) == d + (IF d < 26 THEN 97 ELSE 22)

\* nonBasic.forEach((code) => m = code >= n && code < m ? code : m), from m = 0x110000
MinNonBasic(codes, from) ==
  LET cand == {c \in Range(codes) : c >= from /\ c < 1114112}
  IN  IF cand = {} THEN 1114112 ELSE CHOOSE c \in cand : \A c2 \in cand : c <= c2

IsBasic(code) == code < 128

EncodeEnter ==
  /\ pc = "e_enter"
  /\ IF input = <<>>
     THEN EncodeReturn(<<>>) /\ UNCHANGED uinput
     ELSE uinput' = input /\ Goto("u_enter") /\ UNCHANGED input
  /\ UNCHANGED <<clientVars, uoutput, ui, output, encVars, decVars, loopVars, labels,
                 adaptVars>>

EncodeInit ==
  /\ pc = "e_init"
  /\ LET basics == SelectSeq(input, IsBasic)
     IN  /\ output' = IF Len(basics) > 0 THEN Append(basics, DELIMITER_CODE) ELSE basics
         /\ basic' = Len(basics)
         /\ h' = Len(basics)
  /\ nonBasic' = SelectSeq(input, LAMBDA code : ~IsBasic(code))
  /\ delta' = Wide(0)
  /\ bias' = INITIAL_BIAS
  /\ n' = INITIAL_N
  /\ length' = Len(input)
  /\ Goto("e_outer")
  /\ UNCHANGED <<clientVars, ucs2Vars, input, fi, q, k, decVars, labels, adaptVars>>

EncodeOuter ==
  /\ pc = "e_outer"
  /\ h < length
  /\ LET m == MinNonBasic(nonBasic, n)
     IN  /\ delta' = WAdd(delta, WMul(m - n, h + 1))
         /\ n' = m
  /\ fi' = 0
  /\ Goto("e_each")
  /\ UNCHANGED <<clientVars, ucs2Vars, input, output, nonBasic, h, q, basic, length, bias,
                 k, decVars, labels, adaptVars>>

EncodeDone ==
  /\ pc = "e_outer"
  /\ h >= length
  /\ EncodeReturn(FromCharCode(output))
  /\ UNCHANGED <<clientVars, ucs2Vars, output, encVars, decVars, loopVars, labels,
                 adaptVars>>

\* the 0-based index of the first element equal to code at or after from, the length
\* if none
NextEqual(arr, from, code) ==
  LET at == {j \in (from + 1)..Len(arr) : arr[j] = code}
  IN  IF at = {} THEN Len(arr) ELSE (CHOOSE j \in at : \A j2 \in at : j <= j2) - 1

\* The callbacks of input.forEach up to the next element equal to n: each of them adds
\* 1 to delta for an element below n (line 230); the element equal to n starts the
\* digit loop (line 233).
EncodeEach ==
  /\ pc = "e_each"
  /\ fi < length
  /\ LET hit == NextEqual(input, fi, n)
         counted == WAdd(delta, Wide(Cardinality({j \in (fi + 1)..hit : input[j] < n})))
     IN  /\ delta' = counted
         /\ fi' = hit
         /\ IF hit < length
            THEN k' = BASE /\ q' = counted /\ Goto("e_digit")
            ELSE Goto("e_each") /\ UNCHANGED <<k, q>>
  /\ UNCHANGED <<clientVars, ucs2Vars, input, output, nonBasic, h, basic, length, bias, n,
                 decVars, labels, adaptVars>>

EncodeEachEnd ==
  /\ pc = "e_each"
  /\ fi >= length
  /\ delta' = WAdd(delta, Wide(1))
  /\ n' = n + 1
  /\ Goto("e_outer")
  /\ UNCHANGED <<clientVars, ucs2Vars, input, output, nonBasic, h, fi, q, basic, length,
                 bias, k, decVars, labels, adaptVars>>

EncodeDigit ==
  /\ pc = "e_digit"
  /\ LET tt == EncThreshold(k, bias)
     IN  IF WLess(q, tt)
         THEN /\ output' = Append(output, DigitChar(WInt(q)))
              /\ bias' = adapt(delta, h + 1, h = basic)
              /\ delta' = Wide(0)
              /\ h' = h + 1
              /\ fi' = fi + 1
              /\ Goto("e_each")
              /\ UNCHANGED <<k, q>>
         ELSE /\ output' = Append(output,
                             DigitChar(tt + WJsRem(WAdd(q, Wide(-tt)), BASE - tt)))
              /\ q' = Wide(WTruncQuot(WAdd(q, Wide(-tt)), BASE - tt))
              /\ k' = k + BASE
              /\ Goto("e_digit")
              /\ UNCHANGED <<bias, delta, h, fi>>
  /\ UNCHANGED <<clientVars, ucs2Vars, input, nonBasic, basic, length, n, decVars, labels,
                 adaptVars>>

\* ----------------------------------------------------------------- decode

\* return from decode: to the client or to unicode's map
DecodeReturn(str) ==
  IF api = "unicode"
  THEN /\ mapped' = Append(mapped, str)
       /\ li' = li + 1
       /\ pc' = "n_map"
       /\ UNCHANGED <<result, err>>
  ELSE /\ result' = str
       /\ pc' = "done"
       /\ UNCHANGED <<err, li, mapped>>

\* digit -= 0x16 for 0..9, then -= 0x41 for A..Z, then -= 0x61 for a..z
DigitValue(code) ==
  LET d1 == code - (IF code >= 48 /\ code <= 57 THEN 22 ELSE 0)
      d2 == d1 - (IF d1 >= 65 /\ d1 <= 90 THEN 65 ELSE 0)
  IN  d2 - (IF d2 >= 97 /\ d2 <= 122 THEN 97 ELSE 0)

\* the guard without the accumulator: digit >= BASE || digit > ~~(MAX_INTEGER / w)
DigitOverflowsNoAcc(d, acc, weight) == d >= BASE \/ d > TruncDiv(MAX_INTEGER, weight)

\* digit >= BASE || digit > ~~((MAX_INTEGER - i) / w)
DigitOverflows(d, acc, weight) == d >= BASE \/ d > TruncDiv(MAX_INTEGER - acc, weight)

\* w > ~~(MAX_INTEGER / x), x = BASE - t
WeightOverflows(weight, x) == weight > TruncDiv(MAX_INTEGER, x)

\* ~~(i / out) > (MAX_INTEGER - n)
CodePointOverflows(acc, out, base) == TruncDiv(acc, out) > MAX_INTEGER - base

DecThreshold(kk, b) ==
  IF kk <= b + TMIN THEN TMIN ELSE IF kk >= b + TMAX THEN TMAX ELSE kk - b

DecodeEnter ==
  /\ pc = "d_enter"
  /\ IF input = <<>>
     THEN /\ DecodeReturn(<<>>)
          /\ UNCHANGED <<output, basic, length, bias, n, i>>
     ELSE /\ basic' = LastIndexOf(input, DELIMITER_CODE) + 1
          /\ output' = SubSeq(input, 1, IF basic' # 0 THEN basic' - 1 ELSE 0)
          /\ bias' = INITIAL_BIAS
          /\ n' = INITIAL_N
          /\ i' = 0
          /\ length' = Len(input)
          /\ Goto("d_outer")
  /\ UNCHANGED <<clientVars, ucs2Vars, input, encVars, k, oldi, w, digit, t, labels,
                 adaptVars>>

DecodeOuter ==
  /\ pc = "d_outer"
  /\ basic < length
  /\ oldi' = i
  /\ k' = BASE
  /\ w' = 1
  /\ Goto("d_digit")
  /\ UNCHANGED <<clientVars, ucs2Vars, input, output, encVars, basic, length, bias, n, i,
                 digit, t, labels, adaptVars>>

DecodeDone ==
  /\ pc = "d_outer"
  /\ basic >= length
  /\ IF ValidCodePoints(output)
     THEN DecodeReturn(FromCodePoint(output))
     ELSE Throw("Invalid code point")
  /\ UNCHANGED <<clientVars, ucs2Vars, input, output, encVars, decVars, loopVars, labels,
                 adaptVars>>

\* lines 160-168: read the next digit or fail
DecodeRead ==
  /\ pc = "d_digit"
  /\ IF basic >= length
     THEN Throw("invalid input") /\ UNCHANGED <<basic, digit>>
     ELSE /\ digit' = DigitValue(input[basic + 1])
          /\ basic' = basic + 1
          /\ IF DigitOverflows(digit', i, w)
             THEN Throw("overflow detected")
             ELSE Goto("d_accum")
  /\ UNCHANGED <<clientVars, ucs2Vars, input, output, encVars, length, bias, n, k, i, oldi,
                 w, t, labels, adaptVars>>

\* lines 170-178: accumulate, pick the threshold, stop at a terminal digit
DecodeAccum ==
  /\ pc = "d_accum"
  /\ i' = i + digit * w
  /\ t' = DecThreshold(k, bias)
  /\ IF digit < t'
     THEN Goto("d_adapt")
     ELSE IF WeightOverflows(w, BASE - t')
          THEN Throw("overflow detected")
          ELSE Goto("d_weight")
  /\ UNCHANGED <<clientVars, ucs2Vars, input, output, encVars, loopVars, oldi, w, digit,
                 labels, adaptVars>>

\* line 180 and the loop's k += BASE
DecodeWeight ==
  /\ pc = "d_weight"
  /\ w' = w * (BASE - t)
  /\ k' = k + BASE
  /\ Goto("d_digit")
  /\ UNCHANGED <<clientVars, ucs2Vars, input, output, encVars, basic, length, bias, n, i,
                 oldi, digit, t, labels, adaptVars>>

\* lines 183-186
DecodeAdapt ==
  /\ pc = "d_adapt"
  /\ bias' = adapt(Wide(i - oldi), Len(output) + 1, oldi = 0)
  /\ IF CodePointOverflows(i, Len(output) + 1, n)
     THEN Throw("overflow detected")
     ELSE Goto("d_insert")
  /\ UNCHANGED <<clientVars, ucs2Vars, input, output, encVars, basic, length, n, k, decVars,
                 labels, adaptVars>>

\* lines 188-191 and the loop's ++i
DecodeInsert ==
  /\ pc = "d_insert"
  /\ LET out == Len(output) + 1
     IN  /\ n' = n + TruncDiv(i, out)
         /\ i' = JsRem(i, out) + 1
         /\ output' = Splice(output, JsRem(i, out), n')
  /\ Goto("d_outer")
  /\ UNCHANGED <<clientVars, ucs2Vars, input, encVars, basic, length, bias, k, oldi, w,
                 digit, t, labels, adaptVars>>

\* ------------------------------------------------------- unicode and ascii

\* string.split(sep)
RECURSIVE Split(_, _)
Split(str, sep) ==
  IF \E j \in 1..Len(str) : str[j] = sep
  THEN LET at == CHOOSE j \in 1..Len(str) :
                   str[j] = sep /\ \A j2 \in 1..(j - 1) : str[j2] # sep
       IN  <<SubSeq(str, 1, at - 1)>> \o Split(SubSeq(str, at + 1, Len(str)), sep)
  ELSE <<str>>

\* array.join(sep)
RECURSIVE Join(_, _)
Join(parts, sep) ==
  IF parts = <<>> THEN <<>>
  ELSE IF Len(parts) = 1 THEN parts[1]
  ELSE parts[1] \o <<sep>> \o Join(Tail(parts), sep)

\* /^xn--/.test(domain)
HasAcePrefix(domain) == Len(domain) >= 4 /\ SubSeq(domain, 1, 4) = ACE_PREFIX

\* /[^\0-\x7E]/g.test(domain)
HasNonAscii(domain) == \E j \in 1..Len(domain) : domain[j] > 126

\* string.toLowerCase(), for the units below 0x80
ToLowerCase(str) ==
  [j \in 1..Len(str) |-> IF str[j] >= 65 /\ str[j] <= 90 THEN str[j] + 32 ELSE str[j]]

\* string.substring(from)
Substring(str, from) == SubSeq(str, from + 1, Len(str))

UnicodeEnter ==
  /\ pc = "n_enter"
  /\ IF input = <<>>
     THEN pc' = "done" /\ result' = <<>> /\ UNCHANGED labelVars
     ELSE /\ labels' = Split(input, 46)
          /\ li' = 0
          /\ mapped' = <<>>
          /\ pc' = "n_map"
          /\ UNCHANGED result
  /\ UNCHANGED <<clientVars, err, ucs2Vars, input, output, encVars, decVars, loopVars,
                 adaptVars>>

UnicodeMap ==
  /\ pc = "n_map"
  /\ li < Len(labels)
  /\ LET domain == labels[li + 1]
     IN  IF HasAcePrefix(domain)
         THEN /\ input' = ToLowerCase(Substring(domain, 4))
              /\ Goto("d_enter")
         ELSE /\ mapped' = Append(mapped, domain)
              /\ li' = li + 1
              /\ UNCHANGED <<pc, result, err, input>>
  /\ UNCHANGED <<clientVars, ucs2Vars, output, encVars, decVars, loopVars, labels,
                 adaptVars>>

UnicodeJoin ==
  /\ pc = "n_map"
  /\ li >= Len(labels)
  /\ result' = Join(mapped, 46)
  /\ pc' = "done"
  /\ UNCHANGED <<clientVars, err, ucs2Vars, input, output, encVars, decVars, loopVars,
                 labelVars, adaptVars>>

AsciiEnter ==
  /\ pc = "a_enter"
  /\ IF input = <<>>
     THEN pc' = "done" /\ result' = <<>> /\ UNCHANGED labelVars
     ELSE /\ labels' = Split(input, 46)
          /\ li' = 0
          /\ mapped' = <<>>
          /\ pc' = "a_map"
          /\ UNCHANGED result
  /\ UNCHANGED <<clientVars, err, ucs2Vars, input, output, encVars, decVars, loopVars,
                 adaptVars>>

AsciiMap ==
  /\ pc = "a_map"
  /\ li < Len(labels)
  /\ LET domain == labels[li + 1]
     IN  IF HasNonAscii(domain)
         THEN /\ input' = domain
              /\ Goto("e_enter")
         ELSE /\ mapped' = Append(mapped, domain)
              /\ li' = li + 1
              /\ UNCHANGED <<pc, result, err, input>>
  /\ UNCHANGED <<clientVars, ucs2Vars, output, encVars, decVars, loopVars, labels,
                 adaptVars>>

AsciiJoin ==
  /\ pc = "a_map"
  /\ li >= Len(labels)
  /\ result' = Join(mapped, 46)
  /\ pc' = "done"
  /\ UNCHANGED <<clientVars, err, ucs2Vars, input, output, encVars, decVars, loopVars,
                 labelVars, adaptVars>>

\* a call of adapt on its own
AdaptCall ==
  /\ pc = "adapt"
  /\ bias' = adapt(delta, numPoints, firstTime)
  /\ pc' = "done"
  /\ UNCHANGED <<clientVars, result, err, ucs2Vars, input, output, encVars, decVars, basic,
                 length, n, k, labelVars, adaptVars>>

\* ------------------------------------------------------------------ inputs

\* a, n-tilde, euro sign, 0xDBFF, 0xDC00, 0xE001
EncAlphabet == {97, 241, 8364, 56319, 56320, 57345}
\* LongBasics times "a", then U+10FFFF
LongInput == [j \in 1..(LongBasics + 2) |->
                IF j <= LongBasics THEN 97 ELSE IF j = LongBasics + 1 THEN 56319 ELSE 57343]
EncInputs == Strings(EncAlphabet, MaxEncLen) \cup {LongInput}

\* NUL ! $ - 0 Z a { n-tilde
DecAlphabet == {0, 33, 36, 45, 48, 90, 97, 123, 241}
\* 9 (the digit 35) and a (the digit 0)
DigitAlphabet == {57, 97}
\* at the initial bias "1116146o" is 2^31-1-100, "8016146o" is 2^31-1-128 and
\* "1116146q" is 2^31-1-100 + 2 * 122500000
CraftedDecInputs ==
  {<<49, 49, 49, 54, 49, 52, 54, 111>>, <<56, 48, 49, 54, 49, 52, 54, 111>>,
   <<49, 49, 49, 54, 49, 52, 54, 113>>}
DecInputs ==
  Strings(DecAlphabet, MaxDecLen) \cup Strings(DigitAlphabet, MaxDigits) \cup CraftedDecInputs

\* labels of unicode: "", "xn--", "XN--", "Xn--", "xn-" before up to two of a, B, -
AcePrefixes == {<<>>, ACE_PREFIX, <<88, 78, 45, 45>>, <<88, 110, 45, 45>>, <<120, 110, 45>>}
UnicodeLabels == {p \o r : p \in AcePrefixes, r \in Strings({97, 66, 45}, MaxRestLen)}
\* labels of ascii: up to two of a, DEL, n-tilde
AsciiLabels == Strings({97, 127, 241}, MaxRestLen)
Domains(labelSet) == labelSet \cup {l1 \o <<46>> \o l2 : l1 \in labelSet, l2 \in labelSet}

AdaptDeltas == (0..MaxAdaptDelta) \cup {254801, MAX_INTEGER}

\* ---------------------------------------------------------- specifications

Entry(a) ==
  CASE a = "encode" -> "e_enter"
    [] a = "roundtrip" -> "e_enter"
    [] a = "decode" -> "d_enter"
    [] a = "unicode" -> "n_enter"
    [] a = "ascii" -> "a_enter"
    [] a = "adapt" -> "adapt"

\* the client calls a(str); every local is still unset
InitCall(a, str, d, points, first) ==
  /\ pc = Entry(a)
  /\ api = a
  /\ arg = str
  /\ input = str
  /\ result = <<>>
  /\ err = ""
  /\ uinput = <<>> /\ uoutput = <<>> /\ ui = 0
  /\ output = <<>> /\ nonBasic = <<>>
  /\ basic = 0 /\ length = 0 /\ bias = 0 /\ n = 0 /\ k = 0
  /\ delta = Wide(d) /\ h = 0 /\ fi = 0 /\ q = Wide(0)
  /\ i = 0 /\ oldi = 0 /\ w = 0 /\ digit = 0 /\ t = 0
  /\ labels = <<>> /\ li = 0 /\ mapped = <<>>
  /\ numPoints = points /\ firstTime = first

InitCodec == \E a \in {"encode", "roundtrip"}, str \in EncInputs : InitCall(a, str, 0, 1, FALSE)
InitDecode == \E str \in DecInputs : InitCall("decode", str, 0, 1, FALSE)
InitLabels ==
  \/ \E str \in Domains(UnicodeLabels) : InitCall("unicode", str, 0, 1, FALSE)
  \/ \E str \in Domains(AsciiLabels) : InitCall("ascii", str, 0, 1, FALSE)
InitAdapt ==
  \E d \in AdaptDeltas, points \in 1..MaxAdaptPoints, first \in BOOLEAN :
    InitCall("adapt", <<>>, d, points, first)
Init == InitCodec \/ InitDecode \/ InitLabels \/ InitAdapt

NextDecode ==
  \/ DecodeEnter \/ DecodeOuter \/ DecodeDone \/ DecodeRead \/ DecodeAccum
  \/ DecodeWeight \/ DecodeAdapt \/ DecodeInsert
NextEncode ==
  \/ EncodeEnter \/ Ucs2Enter \/ Ucs2Step \/ Ucs2Return \/ EncodeInit \/ EncodeOuter
  \/ EncodeDone \/ EncodeEach \/ EncodeEachEnd \/ EncodeDigit
NextCodec == NextEncode \/ NextDecode
NextLabels ==
  \/ UnicodeEnter \/ UnicodeMap \/ UnicodeJoin \/ AsciiEnter \/ AsciiMap \/ AsciiJoin
  \/ NextEncode \/ NextDecode
NextAdapt == AdaptCall
Next == NextLabels \/ NextAdapt

SpecCodec == InitCodec /\ [][NextCodec]_vars
\* one call runs to its end: a step that can be taken is taken
FairSpecCodec == SpecCodec /\ WF_vars(NextCodec)
SpecDecode == InitDecode /\ [][NextDecode]_vars
SpecLabels == InitLabels /\ [][NextLabels]_vars
SpecAdapt == InitAdapt /\ [][NextAdapt]_vars
Spec == Init /\ [][Next]_vars

\* ------------------------------------------------------------------ claims

Finished == pc \in {"done", "error"}

\* the 1-based positions of decode's digit section: what follows the last delimiter
DigitSection(str) == (LastIndexOf(str, DELIMITER_CODE) + 2)..Len(str)
EndsWithDelimiter(str) == str # <<>> /\ str[Len(str)] = DELIMITER_CODE
\* decode stopped with the whole input read and the last digit read not a terminal one
EndedInsideInteger ==
  /\ DigitSection(input) # {}
  /\ basic = length
  /\ digit >= t
  /\ err # "overflow detected"

\* C3, as stated: decode fails with 'invalid input' on every input that lacks digits
\* after the delimiter: one whose last character is the delimiter with nothing after it
\* (as in "a-": characters, then the delimiter), and one whose digit stream ends before
\* a terminal digit.
C3_MissingDigitsFail ==
  (Finished /\ ((EndsWithDelimiter(input) /\ Len(input) >= 2) \/ EndedInsideInteger))
    => (pc = "error" /\ err = "invalid input")

\* C3, amended: decode fails with 'invalid input' exactly when the digit section is not
\* empty and the input ends right after a digit that is not terminal (digit >= t); an
\* input that ends in a decimal digit character (never terminal) ends in an error; an
\* input whose last character is the delimiter is no error: decode returns the
\* characters in front of that delimiter.
C3_MalformedDecode ==
  Finished =>
    /\ (err = "invalid input") <=> EndedInsideInteger
    /\ err = "invalid input" => pc = "error" /\ result = <<>>
    /\ (pc = "done" /\ DigitSection(input) # {}) => digit < t
    /\ (input # <<>> /\ input[Len(input)] \in 48..57) => pc = "error"
    /\ EndsWithDelimiter(input) =>
         pc = "done" /\ result = SubSeq(input, 1, Len(input) - 1)

C3_Witness ==
  /\ pc = "error" /\ err = "invalid input"
  /\ Len(input) >= 2 /\ input[1] = 97 /\ input[2] = DELIMITER_CODE

\* C6: in decode, i, w and n stay in 0..2^31-1 at every step: the accumulation
\* i += digit * w, the weight update w *= BASE - t and the update n += i / outLen are
\* reached only when their result is at most 2^31-1, a digit that would exceed it having
\* raised 'overflow detected' first; every number in output is in 0..2^31-1.
C6_DecoderOverflowSafe ==
  /\ i \in 0..MAX_INTEGER /\ w \in 0..MAX_INTEGER /\ n \in 0..MAX_INTEGER
  /\ pc = "d_accum" => digit >= 0 /\ digit <= (MAX_INTEGER - i) \div w
  /\ pc = "d_weight" => w <= MAX_INTEGER \div (BASE - t)
  /\ pc = "d_insert" => i \div (Len(output) + 1) <= MAX_INTEGER - n
  /\ \A j \in 1..Len(output) : output[j] \in 0..MAX_INTEGER

\* an arithmetic overflow stopped decode: the digit is a digit value and digit * w alone
\* fits, but i + digit * w does not
C6_Witness ==
  /\ pc = "error" /\ err = "overflow detected"
  /\ digit < BASE /\ i > 0 /\ w > 1
  /\ digit <= MAX_INTEGER \div w /\ digit > (MAX_INTEGER - i) \div w

IsAlnum(code) ==
  (code >= 48 /\ code <= 57) \/ (code >= 65 /\ code <= 90) \/ (code >= 97 /\ code <= 122)

\* C9: a character of decode's digit section that is none of 0-9, A-Z, a-z, every
\* character below 0x30 included, makes decode fail with 'overflow detected'.
C9_DigitAlphabet ==
  (Finished /\ \E j \in DigitSection(input) : ~IsAlnum(input[j]))
    => (pc = "error" /\ err = "overflow detected")

\* a string with a code point >= 0x80 and no unpaired surrogate
HasNonBasic(str) == \E j \in 1..Len(str) : str[j] >= 128
WellPaired(str) ==
  \A j \in 1..Len(str) :
    /\ IsHigh(str[j]) => (j < Len(str) /\ IsLow(str[j + 1]))
    /\ IsLow(str[j]) => (j > 1 /\ IsHigh(str[j - 1]))

\* C1: for every string s with a code point >= 0x80 and no unpaired surrogate,
\* decode(encode(s)) returns exactly s.
C1_RoundTrip ==
  (api = "roundtrip" /\ Finished /\ HasNonBasic(arg) /\ WellPaired(arg))
    => (pc = "done" /\ result = arg)

\* C2: every call of encode finishes, returning a string or raising an error, whatever
\* the arrangement of surrogate code units in its input.
C2_Terminates == <>Finished

\* C8: ucs2.decode fails on every high surrogate that is not immediately followed by a
\* low surrogate, so the sequence it returns holds only scalar values in 0..0x10FFFF.
C8_UnpairedHighFails ==
  pc = "e_init" =>
    /\ \A j \in 1..Len(uinput) :
         IsHigh(uinput[j]) => (j < Len(uinput) /\ IsLow(uinput[j + 1]))
    /\ \A j \in 1..Len(input) :
         input[j] >= 0 /\ input[j] <= 1114111 /\ ~IsHigh(input[j]) /\ ~IsLow(input[j])

\* C10: delta never exceeds 2^31-1 when encode passes it to the digit emission loop and
\* to adapt: an update that would exceed it makes the call fail with the overflow error.
C10_EncoderDeltaBounded == pc = "e_digit" => ~WGreater(delta, MAX_INTEGER)

\* C4: ascii returns every string of ASCII characters (0x00..0x7F) unchanged.
C4_AsciiIdentity ==
  (api = "ascii" /\ Finished /\ \A j \in 1..Len(arg) : arg[j] <= 127)
    => (pc = "done" /\ result = arg)

\* "xn--" in any letter case
HasAcePrefixAnyCase(domain) ==
  Len(domain) >= 4 /\ ToLowerCase(SubSeq(domain, 1, 4)) = ACE_PREFIX

\* C5: unicode hands every label that starts with "xn--" in any letter case to decode,
\* lowercased and without its first 4 characters, and keeps every other label as it is.
C5_DecodesAnyCase ==
  [][(pc = "n_map" /\ li < Len(labels)) =>
       IF HasAcePrefixAnyCase(labels[li + 1])
       THEN pc' = "d_enter" /\ input' = ToLowerCase(Substring(labels[li + 1], 4))
       ELSE mapped' = Append(mapped, labels[li + 1])]_vars

\* the bias adaptation of RFC 3492, section 6.1, in integers
RECURSIVE AdaptReferenceLoop(_, _)
AdaptReferenceLoop(d, kk) ==
  IF d > 455 THEN AdaptReferenceLoop(d \div 35, kk + 36) ELSE kk + ((36 * d) \div (d + 38))
AdaptReference(d, points, first) ==
  LET d0 == IF first THEN d \div 700 ELSE d \div 2
  IN  AdaptReferenceLoop(d0 + (d0 \div points), 0)

\* C7: adapt equals the exact-integer reference for every delta in 0..2^31-1,
\* numPoints >= 1 and both values of firstTime.
C7_AdaptExact ==
  (api = "adapt" /\ pc = "done") => bias = AdaptReference(WInt(delta), numPoints, firstTime)

====
